---- MODULE Spec2Model ----
(***************************************************************************)
(* A model of the YT Viewer data tools: record_video.py (validate_summary  *)
(* and main), import_summaries.py (parse_markdown_summary and main),       *)
(* import_history.py (main) and generate_viz.py (generate_mindmap,         *)
(* extract_stats, generate_viz_data).                                      *)
(*                                                                         *)
(* JSON values are tagged records [t, v] (the tag t is the Python type).   *)
(* TLC compares records field by field, in the order in which it first met *)
(* the field names: t comes before v in this module, so that values of     *)
(* different types are told apart by their tags.                           *)
(* A Python str is a sequence of symbols: one-character strings, plus a    *)
(* few multi-character symbols standing for the literal words and the      *)
(* ASCII words the source matches as a whole (IDEAS, Speaker); a          *)
(* non-ASCII character is the symbol "U+" and its code point.              *)
(***************************************************************************)
EXTENDS Integers, Sequences, FiniteSets, TLC

VARIABLES
    exists,      \* DATA_FILE exists on disk
    videos,      \* data["videos"] as stored in DATA_FILE
    updated_at,  \* data["updated_at"] as stored in DATA_FILE
    clock,       \* time.time(), in steps
    last,        \* what the last run did: its operation, arguments, exit status, message
    expected,    \* per id, the summary the latest record_video run left for it
    content,     \* argument of parse_markdown_summary
    summary,     \* a summary: result of parse_markdown_summary, argument of generate_viz_data
    viz,         \* result of generate_viz_data and extract_stats
    candidate,   \* the caller's object passed to validate_summary
    video_id,    \* the video_id passed to validate_summary
    outcome      \* what validate_summary returned or raised

vars == <<exists, videos, updated_at, clock, last, expected,
          content, summary, viz, candidate, video_id, outcome>>

storeVars == <<exists, videos, updated_at, clock, last, expected>>
extractVars == <<content, summary, viz>>
validateVars == <<candidate, video_id, outcome>>

(***************************************************************************)
(* JSON values                                                             *)
(***************************************************************************)
JStr(s) == [t |-> "str", v |-> s]
JList(l) == [t |-> "list", v |-> l]
JDict(f) == [t |-> "dict", v |-> f]
JInt(n) == [t |-> "int", v |-> n]
JNone == [t |-> "None", v |-> 0]
\* not a JSON value: the marker of a key a dict does not have, of a call not yet made
Absent == [t |-> "absent", v |-> 0]

EmptyDict == [k \in {} |-> JNone]

\* Python truthiness: bool(x)
Truthy(x) ==
    CASE x.t = "str" -> Len(x.v) > 0
      [] x.t = "list" -> Len(x.v) > 0
      [] x.t = "dict" -> DOMAIN x.v # {}
      [] x.t = "int" -> x.v # 0
      [] OTHER -> FALSE

\* d.get(k) and d.get(k, default) on the mapping of a dict
Get(f, k, default) == IF k \in DOMAIN f THEN f[k] ELSE default

\* d[k] = x on the mapping of a dict
Put(f, k, x) == [j \in DOMAIN f \cup {k} |-> IF j = k THEN x ELSE f[j]]

\* result.update(inner) on the mappings of two dicts
Update(f, g) == [j \in DOMAIN f \cup DOMAIN g |-> IF j \in DOMAIN g THEN g[j] ELSE f[j]]

Min(a, b) == IF a < b THEN a ELSE b

\* a variant that keeps the last n items
TakeLast(l, n) == SubSeq(l, Len(l) - Min(Len(l), n) + 1, Len(l))

\* l[:n]
Take(l, n) == SubSeq(l, 1, Min(Len(l), n))

\* l[n:]
Drop(l, n) == SubSeq(l, Min(Len(l), n) + 1, Len(l))

(***************************************************************************)
(* Text                                                                    *)
(***************************************************************************)
NL == "\n"
Whitespace == {" ", NL, "\t"}
Digits == {"0", "1", "2", "3", "4", "5", "6", "7", "8", "9"}

DigitValue(c) ==
    CASE c = "0" -> 0 [] c = "1" -> 1 [] c = "2" -> 2 [] c = "3" -> 3 [] c = "4" -> 4
      [] c = "5" -> 5 [] c = "6" -> 6 [] c = "7" -> 7 [] c = "8" -> 8 [] c = "9" -> 9

\* int(s) for a string of digits
RECURSIVE ToInt(_)
ToInt(s) == IF s = <<>> THEN 0 ELSE 10 * ToInt(SubSeq(s, 1, Len(s) - 1)) + DigitValue(s[Len(s)])

\* the least and the greatest element of a non-empty set of integers
Least(S) == CHOOSE x \in S : \A y \in S : x <= y
Greatest(S) == CHOOSE x \in S : \A y \in S : x >= y

\* s.lstrip(chars), s.rstrip(chars), s.strip(chars)
LStrip(s, chars) ==
    LET keep == {i \in 1..Len(s) : s[i] \notin chars}
    IN IF keep = {} THEN <<>> ELSE SubSeq(s, Least(keep), Len(s))

RStrip(s, chars) ==
    LET keep == {i \in 1..Len(s) : s[i] \notin chars}
    IN IF keep = {} THEN <<>> ELSE SubSeq(s, 1, Greatest(keep))

StripChars(s, chars) == RStrip(LStrip(s, chars), chars)

\* s.strip()
Strip(s) == StripChars(s, Whitespace)

\* [f(x) for x in l]
MapSeq(F(_), l) == [k \in 1..Len(l) |-> F(l[k])]

\* s.split('\n')
RECURSIVE SplitLines(_)
SplitLines(s) ==
    IF \A i \in 1..Len(s) : s[i] # NL
    THEN <<s>>
    ELSE LET i == CHOOSE j \in 1..Len(s) : s[j] = NL /\ \A k \in 1..(j - 1) : s[k] # NL
         IN <<SubSeq(s, 1, i - 1)>> \o SplitLines(SubSeq(s, i + 1, Len(s)))

(***************************************************************************)
(* Regular expressions, with the backtracking semantics of Python's re: a  *)
(* pattern is a tree, and Ends gives the positions where a match starting  *)
(* at i can end, in the order the matcher tries them (greedy: longest      *)
(* first; lazy: shortest first; alternatives left to right). The first     *)
(* entry for which the rest of the pattern matches is the match.           *)
(***************************************************************************)
Ch(S) == <<"set", S>>                    \* [...] and single characters
NotCh(S) == <<"nset", S>>                \* [^...]
AnyCh == <<"nset", {}>>                  \* [\s\S], and . under re.DOTALL
Dot == <<"nset", {NL}>>                  \* .
Cat(rs) == <<"cat", rs>>                 \* concatenation
Alt(a, b) == <<"alt", a, b>>             \* a|b
Opt(r) == <<"opt", r>>                   \* r?
Star(c) == <<"star", c>>                 \* c*, c a character class
Plus(c) == <<"cat", <<c, <<"star", c>>>>>>             \* c+
LazyPlus(c) == <<"cat", <<c, <<"lazystar", c>>>>>>     \* c+?
Ahead(r) == <<"ahead", r>>               \* (?=r)
Bos == <<"bos">>                         \* ^ (no re.MULTILINE)
Eos == <<"eos">>                         \* \Z
Eol == <<"eol">>                         \* $ (no re.MULTILINE)

\* the character at i is in the class c
InClass(c, s, i) ==
    i <= Len(s) /\ IF c[1] = "set" THEN s[i] \in c[2] ELSE s[i] \notin c[2]

\* where the longest run of characters of the class c that starts at i ends
RunEnd(c, s, i) == Least({j \in i..(Len(s) + 1) : ~InClass(c, s, j)})

RECURSIVE Ends(_, _, _), EndsFrom(_, _, _)
\* the ends of re from each of the starts, in order
EndsFrom(re, s, starts) ==
    CASE Len(starts) = 0 -> <<>>
      [] Len(starts) = 1 -> Ends(re, s, starts[1])
      [] OTHER -> LET half == Len(starts) \div 2
                  IN EndsFrom(re, s, SubSeq(starts, 1, half))
                     \o EndsFrom(re, s, SubSeq(starts, half + 1, Len(starts)))

Ends(re, s, i) ==
    CASE re[1] \in {"set", "nset"} -> IF InClass(re, s, i) THEN <<i + 1>> ELSE <<>>
      [] re[1] = "cat" ->
            IF Len(re[2]) = 0 THEN <<i>>
            ELSE EndsFrom(<<"cat", Tail(re[2])>>, s, Ends(Head(re[2]), s, i))
      [] re[1] = "alt" -> Ends(re[2], s, i) \o Ends(re[3], s, i)
      [] re[1] = "opt" -> Ends(re[2], s, i) \o <<i>>
      [] re[1] = "star" ->
            LET j == RunEnd(re[2], s, i) IN [k \in 1..(j - i + 1) |-> j + 1 - k]
      [] re[1] = "lazystar" ->
            LET j == RunEnd(re[2], s, i) IN [k \in 1..(j - i + 1) |-> i + k - 1]
      [] re[1] = "ahead" -> IF Ends(re[2], s, i) # <<>> THEN <<i>> ELSE <<>>
      [] re[1] = "bos" -> IF i = 1 THEN <<i>> ELSE <<>>
      [] re[1] = "eos" -> IF i = Len(s) + 1 THEN <<i>> ELSE <<>>
      [] re[1] = "eol" ->
            IF i = Len(s) + 1 \/ (i = Len(s) /\ s[i] = NL) THEN <<i>> ELSE <<>>

\* A pattern cut at its group boundaries is a sequence of parts; Bounds gives the
\* boundaries <<start, end of part 1, ..., end of the match>> of the first match
\* at i, or <<>> when there is none.
\* the first of the attempts (a function on a set of integers, each entry the
\* boundaries of a match or <<>>) that is a match, or <<>>
FirstMatch(attempts) ==
    LET ok == {k \in DOMAIN attempts : attempts[k] # <<>>}
    IN IF ok = {} THEN <<>> ELSE attempts[Least(ok)]

RECURSIVE Bounds(_, _, _)
\* the boundaries of the rest of the pattern, after each end of its first part
BoundsAfter(parts, s, ends) == FirstMatch([k \in 1..Len(ends) |-> Bounds(parts, s, ends[k])])

Prepend(i, b) == IF b = <<>> THEN <<>> ELSE <<i>> \o b

Bounds(parts, s, i) ==
    IF Len(parts) = 0 THEN <<i>>
    ELSE Prepend(i, BoundsAfter(Tail(parts), s, Ends(Head(parts), s, i)))

\* the boundaries of the leftmost match that starts at i or later, or <<>>
SearchFrom(parts, s, i) == FirstMatch([j \in i..(Len(s) + 1) |-> Bounds(parts, s, j)])

\* re.search(parts, s)
Search(parts, s) == SearchFrom(parts, s, 1)

\* re.sub(re, '', s), for a pattern that matches no empty string: s from i on, with
\* the matches removed; b is the leftmost match from i on
RECURSIVE SubFrom(_, _, _)
SubAt(re, s, i, b) ==
    IF b = <<>> THEN SubSeq(s, i, Len(s))
    ELSE SubSeq(s, i, b[1] - 1) \o SubFrom(re, s, b[2])

SubFrom(re, s, i) == SubAt(re, s, i, SearchFrom(<<re>>, s, i))

Sub(re, s) == SubFrom(re, s, 1)

\* re.findall(parts, s) for a pattern <<before, group, after>> with one group,
\* matching no empty string: the group of every match, left to right; b is the
\* leftmost match from i on
RECURSIVE FindAllFrom(_, _, _)
FindAllAt(parts, s, b) ==
    IF b = <<>> THEN <<>>
    ELSE <<SubSeq(s, b[2], b[3] - 1)>> \o FindAllFrom(parts, s, b[4])

FindAllFrom(parts, s, i) == FindAllAt(parts, s, SearchFrom(parts, s, i))

FindAll(parts, s) == FindAllFrom(parts, s, 1)

(***************************************************************************)
(* import_summaries.py: parse_markdown_summary                             *)
(***************************************************************************)
\* A literal word matched under re.IGNORECASE: the word is one symbol, in its
\* upper-case, lower-case and capitalised spellings.
AnyCase(upper, lower, capital) == Ch({upper, lower, capital})

WS == Ch(Whitespace)
BulletMarkers == {"-", "*", "U+2022"}

\* r'#\s*(?:EMOJI\s*)?WORD[:\s]*\n+([\s\S]+?)(?=\n#|\Z)' with re.IGNORECASE,
\* cut at the group: the pattern of the IDEAS, INSIGHTS, QUOTES and FACTS sections;
\* emoji is the pattern of the section's emoji
SectionPattern(emoji, word) ==
    << Cat(<<Ch({"#"}), Star(WS), Opt(Cat(<<emoji, Star(WS)>>)), word,
             Star(Ch({":"} \cup Whitespace)), Plus(Ch({NL}))>>),
       LazyPlus(AnyCh),
       Ahead(Alt(Cat(<<Ch({NL}), Ch({"#"})>>), Eos)) >>

IdeasPattern == SectionPattern(Ch({"U+1F4A1"}), AnyCase("IDEAS", "ideas", "Ideas"))
InsightsPattern == SectionPattern(Ch({"U+1F9E0"}), AnyCase("INSIGHTS", "insights", "Insights"))
QuotesPattern ==
    SectionPattern(Cat(<<Ch({"U+1F5E3"}), Ch({"U+FE0F"})>>), AnyCase("QUOTES", "quotes", "Quotes"))
FactsPattern == SectionPattern(Ch({"U+1F9EA"}), AnyCase("FACTS", "facts", "Facts"))

\* r'(?:^|\n)(?:>?\s*\*?\*?SUMMARY\*?\*?|# SUMMARY)\s*\n+>?\s*(.+?)(?=\n\n|\n#)'
\* with re.IGNORECASE | re.DOTALL, cut at the group
TldrPattern ==
    LET Word == AnyCase("SUMMARY", "summary", "Summary")
        Star2 == Cat(<<Opt(Ch({"*"})), Opt(Ch({"*"}))>>)
    IN << Cat(<<Alt(Bos, Ch({NL})),
                Alt(Cat(<<Opt(Ch({">"})), Star(WS), Star2, Word, Star2>>),
                    Cat(<<Ch({"#"}), Ch({" "}), Word>>)),
                Star(WS), Plus(Ch({NL})), Opt(Ch({">"})), Star(WS)>>),
          LazyPlus(AnyCh),
          Ahead(Alt(Cat(<<Ch({NL}), Ch({NL})>>), Cat(<<Ch({NL}), Ch({"#"})>>))) >>

\* r'#\s*(?:EMOJI\s*)?(?:ONE[- ]SENTENCE\s*)?TAKEAWAY[:\s]*\n+(.+?)(?=\n#|\n\n|\Z)'
\* with re.IGNORECASE, cut at the group
TakeawayPattern ==
    << Cat(<<Ch({"#"}), Star(WS), Opt(Cat(<<Ch({"U+1F680"}), Star(WS)>>)),
             Opt(Cat(<<AnyCase("ONE", "one", "One"), Ch({"-", " "}),
                       AnyCase("SENTENCE", "sentence", "Sentence"), Star(WS)>>)),
             AnyCase("TAKEAWAY", "takeaway", "Takeaway"),
             Star(Ch({":"} \cup Whitespace)), Plus(Ch({NL}))>>),
       LazyPlus(Dot),
       Ahead(Alt(Cat(<<Ch({NL}), Ch({"#"})>>), Alt(Cat(<<Ch({NL}), Ch({NL})>>), Eos))) >>

\* match.group(n) of the match with boundaries b of a pattern cut at its groups, the
\* n-th group being part k of it
GroupOf(text, b, k) == SubSeq(text, b[k], b[k + 1] - 1)

\* match.group(1) of re.search(pattern, content), or Absent when nothing matches
GroupOrAbsent(text, b) == IF b = <<>> THEN Absent ELSE JStr(GroupOf(text, b, 2))
Group1(pattern, text) == GroupOrAbsent(text, Search(pattern, text))

\* r'^[-*U+2022]\s*'
MarkerPattern == Cat(<<Bos, Ch(BulletMarkers), Star(WS)>>)

\* for line in body.strip().split('\n'): line = line.strip();
\* if line.startswith(('-', '*', U+2022)): text = re.sub(r'^[-*U+2022]\s*', '', line)
\* gives the texts of the bullet lines of a section, in order
BulletTexts(body) ==
    LET lines == MapSeq(Strip, SplitLines(Strip(body)))
        bullets == SelectSeq(lines, LAMBDA line : line # <<>> /\ line[1] \in BulletMarkers)
    IN MapSeq(LAMBDA line : Sub(MarkerPattern, line), bullets)

\* r'\[\[?(\d+):(\d+)\]?\]', cut at its two groups
TimestampPattern ==
    << Cat(<<Ch({"["}), Opt(Ch({"["}))>>), Plus(Ch(Digits)), Ch({":"}), Plus(Ch(Digits)),
       Cat(<<Opt(Ch({"]"})), Ch({"]"})>>) >>

\* r'\s*\[\[?\d+:\d+\]?\]\([^)]+\)'
LinkedTimestampPattern ==
    Cat(<<Star(WS), Ch({"["}), Opt(Ch({"["})), Plus(Ch(Digits)), Ch({":"}), Plus(Ch(Digits)),
          Opt(Ch({"]"})), Ch({"]"}), Ch({"("}), Plus(NotCh({")"})), Ch({")"})>>)

\* one entry of ideas, from the text of a bullet line and its ts_match
IdeaOf(text, ts_match) ==
    IF ts_match # <<>>
    THEN LET mins == ToInt(GroupOf(text, ts_match, 2))
             secs == ToInt(GroupOf(text, ts_match, 4))
         IN JDict([text |-> JStr(Strip(Sub(LinkedTimestampPattern, text))),
                   timestamp |-> JInt(mins * 60 + secs)])
    ELSE JDict([text |-> JStr(text), timestamp |-> JNone])

Idea(text) == IdeaOf(text, Search(TimestampPattern, text))

\* the texts that are not empty, as JSON strings
NonEmptyStrs(l) == MapSeq(LAMBDA x : JStr(x), SelectSeq(l, LAMBDA x : x # <<>>))

IdeasLimit == 15
InsightsLimit == 10
QuotesLimit == 5
FactsLimit == 8

\* ideas, before the limit
AllIdeas(body) == MapSeq(Idea, BulletTexts(body))

\* insights, before the limit
AllInsights(body) ==
    NonEmptyStrs(MapSeq(LAMBDA x : Strip(Sub(LinkedTimestampPattern, x)), BulletTexts(body)))

\* r'\s*-\s*Speaker.*$'
SpeakerPattern == Cat(<<Star(WS), Ch({"-"}), Star(WS), Ch({"Speaker"}), Star(Dot), Eol>>)

\* r'\s*\[\d+:\d+\].*$'
QuoteTimestampPattern ==
    Cat(<<Star(WS), Ch({"["}), Plus(Ch(Digits)), Ch({":"}), Plus(Ch(Digits)), Ch({"]"}),
          Star(Dot), Eol>>)

\* quotes, before the limit
AllQuotes(body) ==
    NonEmptyStrs(MapSeq(
        LAMBDA x : StripChars(Sub(QuoteTimestampPattern, Sub(SpeakerPattern, x)), {"\"", "'"}),
        BulletTexts(body)))

\* facts, before the limit
AllFacts(body) == NonEmptyStrs(MapSeq(Strip, BulletTexts(body)))

\* the dict with the keys of fields that hold a value (not Absent)
DictOf(fields) == [k \in {j \in DOMAIN fields : fields[j] # Absent} |-> fields[k]]

\* F(match.group(1)) if the pattern matches, else Absent
Apply(group, F(_)) == IF group = Absent THEN Absent ELSE F(group.v)
Section(pattern, text, F(_)) == Apply(Group1(pattern, text), F)

parse_markdown_summary(text, vid) ==
    JDict(DictOf(
        [videoId |-> JStr(vid),
         tldr |-> Section(TldrPattern, text, LAMBDA g : JStr(StripChars(Strip(g), {">"}))),
         ideas |-> Section(IdeasPattern, text, LAMBDA g : JList(Take(AllIdeas(g), IdeasLimit))),
         insights |-> Section(InsightsPattern, text,
                              LAMBDA g : JList(Take(AllInsights(g), InsightsLimit))),
         quotes |-> Section(QuotesPattern, text,
                            LAMBDA g : JList(Take(AllQuotes(g), QuotesLimit))),
         facts |-> Section(FactsPattern, text, LAMBDA g : JList(Take(AllFacts(g), FactsLimit))),
         takeaway |-> Section(TakeawayPattern, text, LAMBDA g : JStr(Strip(g)))]))

(***************************************************************************)
(* generate_viz.py: generate_mindmap, extract_stats, detect_comparison,    *)
(* generate_viz_data.                                                      *)
(***************************************************************************)
\* [i['text'] if isinstance(i, dict) else i for i in ideas], as symbol sequences
IdeaTexts(ideas) == MapSeq(LAMBDA i : IF i.t = "dict" THEN i.v["text"].v ELSE i.v, ideas)

\* summary.get(key, []) of a key that holds a list
GetList(f, key) == Get(f, key, JList(<<>>)).v

\* summary.get(key, '') of a key that holds a string
GetStr(f, key) == Get(f, key, JStr(<<>>)).v

LabelCoreViewpoints == <<"U+6838", "U+5FC3", "U+89C2", "U+70B9">>
LabelKeyArguments == <<"U+5173", "U+952E", "U+8BBA", "U+636E">>
LabelFurtherThoughts == <<"U+5EF6", "U+4F38", "U+601D", "U+8003">>
LabelDeepInsights == <<"U+6DF1", "U+5EA6", "U+6D1E", "U+5BDF">>
LabelCoreConclusion == <<"U+6838", "U+5FC3", "U+7ED3", "U+8BBA">>
DefaultRoot == <<"U+89C6", "U+9891", "U+603B", "U+7ED3">>

\* {"label": label, "children": children}
Branch(label, children) == JDict([label |-> JStr(label), children |-> JList(children)])

MinIdeasToCluster == 3
BranchLimit == 3
RootLimit == 30

\* a variant that takes the ideas three by three: first 3, next 3, next 3
IdeaBranchesByThree(idea_texts) ==
    IF Len(idea_texts) >= MinIdeasToCluster
    THEN LET strs(l) == MapSeq(LAMBDA x : JStr(x), l)
         IN << Branch(LabelCoreViewpoints, strs(Take(idea_texts, BranchLimit))),
               Branch(LabelKeyArguments, strs(Take(Drop(idea_texts, BranchLimit), BranchLimit))),
               Branch(LabelFurtherThoughts,
                      strs(Take(Drop(idea_texts, 2 * BranchLimit), BranchLimit))) >>
    ELSE <<>>

\* the three branches of the ideas: first third, middle third, the rest
IdeaBranches(idea_texts) ==
    IF Len(idea_texts) >= MinIdeasToCluster
    THEN LET third == Len(idea_texts) \div 3
             strs(l) == MapSeq(LAMBDA x : JStr(x), l)
         IN << Branch(LabelCoreViewpoints, strs(Take(Take(idea_texts, third), BranchLimit))),
               Branch(LabelKeyArguments,
                      strs(Take(Drop(Take(idea_texts, 2 * third), third), BranchLimit))),
               Branch(LabelFurtherThoughts, strs(Take(Drop(idea_texts, 2 * third), BranchLimit))) >>
    ELSE <<>>

generate_mindmap(f) ==
    LET ideas == GetList(f, "ideas")
        insights == Get(f, "insights", JList(<<>>))
        takeaway == Get(f, "takeaway", JStr(<<>>))
        tldr == GetStr(f, "tldr")
        children ==
            IdeaBranches(IdeaTexts(ideas))
            \o (IF Truthy(insights)
                THEN <<Branch(LabelDeepInsights, Take(insights.v, BranchLimit))>> ELSE <<>>)
            \o (IF Truthy(takeaway) THEN <<Branch(LabelCoreConclusion, <<takeaway>>)>> ELSE <<>>)
        root == IF Len(tldr) > RootLimit THEN Take(tldr, RootLimit) \o <<".", ".", ".">>
                ELSE IF tldr # <<>> THEN tldr ELSE DefaultRoot
    IN JDict([root |-> JStr(root), children |-> JList(children)])

\* r'(\d+(?:\.\d+)?)', r'(\d+(?:-\d+)?)' and r'(\d+(?:\.\d+)?[KMB]?)'
Number(sep) == Cat(<<Plus(Ch(Digits)), Opt(Cat(<<Ch({sep}), Plus(Ch(Digits))>>))>>)
Amount == Cat(<<Number("."), Opt(Ch({"K", "M", "B"}))>>)

\* the patterns of extract_stats, cut at the group, each with its suffix
StatPatterns ==
    LET Suffixed(number, suffix) ==
            [pattern |-> <<Cat(<<>>), number, Cat(<<Star(WS), Ch({suffix})>>)>>,
             suffix |-> suffix]
    IN << Suffixed(Number("."), "U+4E07"),
          Suffixed(Number("."), "U+4EBF"),
          Suffixed(Number("."), "%"),
          [pattern |-> <<Ch({"$"}), Amount, Cat(<<>>)>>, suffix |-> "$"],
          Suffixed(Number("-"), "U+5E74"),
          Suffixed(Number("."), "U+500D") >>

StatsLimit == 6
LabelLimit == 20

\* val = f"{m}{suffix}" if suffix != '$' else f"${m}"
StatValue(m, suffix) == IF suffix # "$" THEN m \o <<suffix>> ELSE <<"$">> \o m

\* l1 + l2 + ... for a list of lists
RECURSIVE Flatten(_)
Flatten(ll) ==
    CASE Len(ll) = 0 -> <<>>
      [] Len(ll) = 1 -> ll[1]
      [] OTHER -> LET half == Len(ll) \div 2
                  IN Flatten(SubSeq(ll, 1, half)) \o Flatten(SubSeq(ll, half + 1, Len(ll)))

\* all_text = facts + [idea texts]
AllText(f) == MapSeq(LAMBDA x : x.v, GetList(f, "facts")) \o IdeaTexts(GetList(f, "ideas"))

\* The iterations of the three nested loops (for text in all_text: for pattern, suffix
\* in patterns: for m in re.findall(pattern, text)), in order: the val and the text of each
Matches(texts) ==
    LET OfPattern(text, p) ==
            MapSeq(LAMBDA m : [val |-> StatValue(m, p.suffix), text |-> text],
                   FindAll(p.pattern, text))
        OfText(text) == Flatten(MapSeq(LAMBDA p : OfPattern(text, p), StatPatterns))
    IN Flatten(MapSeq(OfText, texts))

\* a variant that does not look at seen
AddStatAgain(st, val, text) ==
    IF Len(st.stats) < StatsLimit
    THEN [stats |-> Append(st.stats, JDict([value |-> JStr(val),
                                             label |-> JStr(Strip(Take(text, LabelLimit)))])),
          seen |-> st.seen \cup {val}]
    ELSE st

\* if val not in seen and len(stats) < 6: stats.append(...); seen.add(val)
AddStat(st, val, text) ==
    IF val \notin st.seen /\ Len(st.stats) < StatsLimit
    THEN [stats |-> Append(st.stats, JDict([value |-> JStr(val),
                                             label |-> JStr(Strip(Take(text, LabelLimit)))])),
          seen |-> st.seen \cup {val}]
    ELSE st

\* stats and seen after the first n iterations
RECURSIVE Scan(_, _)
Scan(matches, n) ==
    IF n = 0 THEN [stats |-> <<>>, seen |-> {}]
    ELSE AddStat(Scan(matches, n - 1), matches[n].val, matches[n].text)

ScanAll(matches) == Scan(matches, Len(matches))

extract_stats(f) == Take(ScanAll(Matches(AllText(f))).stats, StatsLimit)

\* kw in all_text
Contains(text, kw) ==
    \E i \in 1..(Len(text) - Len(kw) + 1) : SubSeq(text, i, i + Len(kw) - 1) = kw

\* ' '.join(texts)
RECURSIVE Join(_)
Join(texts) ==
    IF texts = <<>> THEN <<>>
    ELSE IF Len(texts) = 1 THEN texts[1]
    ELSE texts[1] \o <<" ">> \o Join(Tail(texts))

\* comparison_keywords: 'vs', 'VS' and ten words of two CJK characters
ComparisonKeywords ==
    { <<"v", "s">>, <<"V", "S">>,
      <<"U+5BF9", "U+6BD4">>,
      <<"U+76F8", "U+6BD4">>,
      <<"U+4F18", "U+52BF">>,
      <<"U+52A3", "U+52BF">>,
      <<"U+4F20", "U+7EDF">>,
      <<"U+65B0", "U+578B">>,
      <<"U+5730", "U+9762">>,
      <<"U+592A", "U+7A7A">>,
      <<"U+4E4B", "U+524D">>,
      <<"U+4E4B", "U+540E">> }

detect_comparison(f) ==
    LET all_text == Join(IdeaTexts(GetList(f, "ideas")))
    IN \E kw \in ComparisonKeywords : Contains(all_text, kw)

\* lines 104-122: the locals mindmap and stats, and the viz_data and suggested_viz
\* returned, from what the three functions give
VizData(mindmap, stats, comparison) ==
    [mindmap |-> mindmap,
     stats |-> JList(stats),
     viz_data |->
        JDict(DictOf([mindmap |-> IF Truthy(mindmap.v["children"]) THEN mindmap ELSE Absent,
                      stats |-> IF stats # <<>> THEN JList(stats) ELSE Absent])),
     suggested_viz |-> JList((IF stats # <<>> THEN <<JStr(<<"stats">>)>> ELSE <<>>)
                             \o (IF comparison THEN <<JStr(<<"comparison">>)>> ELSE <<>>))]

generate_viz_data(f) == VizData(generate_mindmap(f), extract_stats(f), detect_comparison(f))

(***************************************************************************)
(* record_video.py: validate_summary                                       *)
(***************************************************************************)
REQUIRED_SUMMARY_FIELDS == {"tldr", "ideas", "insights"}

metadata_fields == {"status", "video_id", "title", "channel", "duration", "views", "likes"}

\* "summary" in summary and isinstance(summary["summary"], dict)
\* and any(field in inner for field in REQUIRED_SUMMARY_FIELDS)
IsNested(f) ==
    /\ "summary" \in DOMAIN f
    /\ f["summary"].t = "dict"
    /\ \E field \in REQUIRED_SUMMARY_FIELDS : field \in DOMAIN f["summary"].v

\* a variant where the outer value wins on a key of both
FlattenOuterWins(f) ==
    Update(f["summary"].v, [k \in DOMAIN f \cap metadata_fields |-> f[k]])

\* result = {k: v for k, v in summary.items() if k in metadata_fields}; result.update(inner)
Flatten_nested(f) ==
    Update([k \in DOMAIN f \cap metadata_fields |-> f[k]], f["summary"].v)

\* a variant that names one missing field only
MissingFieldsFirst(f) ==
    IF REQUIRED_SUMMARY_FIELDS \subseteq DOMAIN f THEN {}
    ELSE {CHOOSE field \in REQUIRED_SUMMARY_FIELDS : field \notin DOMAIN f}

\* missing = REQUIRED_SUMMARY_FIELDS - set(summary.keys())
MissingFields(f) == REQUIRED_SUMMARY_FIELDS \ DOMAIN f

\* not isinstance(summary.get("tldr"), str) or not summary["tldr"].strip()
BadTldr(f) == f["tldr"].t # "str" \/ Strip(f["tldr"].v) = <<>>

\* raise ValueError(reason); arg is the caller's object as the call leaves it
Raised(reason, missing, arg, warned) ==
    [status |-> "raised", reason |-> reason, missing |-> missing,
     value |-> Absent, arg |-> arg, warned |-> warned]

\* summary["videoId"] = video_id; return summary. The object the assignment writes
\* is the caller's own unless the nested summary was flattened into a new dict.
Returned(f, vid, arg, flattened) ==
    LET result == JDict(Put(f, "videoId", JStr(vid)))
    IN [status |-> "returned", reason |-> "", missing |-> {},
        value |-> result, arg |-> IF flattened THEN arg ELSE result, warned |-> flattened]

\* validate_summary(summary, video_id): what it returns or raises, the caller's
\* object afterwards, and whether the warning was printed
validate_summary(arg, vid) ==
    IF arg.t # "dict"
    THEN Raised("Summary must be a dict", {}, arg, FALSE)
    ELSE LET flattened == IsNested(arg.v)
             f == IF flattened THEN Flatten_nested(arg.v) ELSE arg.v
         IN IF MissingFields(f) # {}
            THEN Raised("Summary missing required fields", MissingFields(f), arg, flattened)
            ELSE IF BadTldr(f)
            THEN Raised("tldr must be a non-empty string", {}, arg, flattened)
            ELSE IF f["ideas"].t # "list"
            THEN Raised("ideas must be a list", {}, arg, flattened)
            ELSE IF f["insights"].t # "list"
            THEN Raised("insights must be a list", {}, arg, flattened)
            ELSE Returned(f, vid, arg, flattened)

(***************************************************************************)
(* The data store DATA_FILE, and the three programs that write it          *)
(***************************************************************************)
\* json.load(DATA_FILE) if DATA_FILE.exists() else {"videos": [], "updated_at": None}
LoadData ==
    IF exists THEN [videos |-> videos, updated_at |-> updated_at]
    ELSE [videos |-> <<>>, updated_at |-> JNone]

\* the summary of a stored entry, or Absent when the entry has no "summary" key
StoredSummary(entry) == Get(entry.v, "summary", Absent)

\* the indices of the entries with the id
IndicesOf(vs, id) == {i \in 1..Len(vs) : vs[i].v["id"] = JStr(id)}

(***************************************************************************)
(* record_video.py: main. args are the parsed command-line arguments;      *)
(* source is what --summary names: nothing, text that is no JSON, or the   *)
(* JSON value read from the file or from stdin.                            *)
(***************************************************************************)
NoSummaryOption == [kind |-> "none", value |-> JNone]
InvalidJson == [kind |-> "invalid", value |-> JNone]
JsonSummary(raw) == [kind |-> "json", value |-> raw]
\* what an import run reads instead: the listing of its directory
Listing(items) == [kind |-> "dir", value |-> items]

\* what the run reports and how it ends
Report(op, id, source, exit, message, reason, missing) ==
    [op |-> op, id |-> id, source |-> source, exit |-> exit,
     message |-> message, reason |-> reason, missing |-> missing]

\* a variant that goes on without a summary when validate_summary raises
LoadSummaryLenient(source, id) ==
    IF source.kind = "invalid"
    THEN [exit |-> 1, message |-> "ERROR: Invalid JSON in summary file",
          reason |-> "", missing |-> {}, summary |-> JNone]
    ELSE IF source.kind = "none" \/ ~Truthy(source.value)
            \/ validate_summary(source.value, id).status = "raised"
    THEN [exit |-> 0, message |-> "", reason |-> "", missing |-> {}, summary |-> JNone]
    ELSE [exit |-> 0, message |-> "Summary validated", reason |-> "", missing |-> {},
          summary |-> validate_summary(source.value, id).value]

\* lines 86-104: the validated summary (None when none is provided or the JSON is
\* empty), or the error the run exits on
LoadSummary(source, id) ==
    IF source.kind = "none"
    THEN [exit |-> 0, message |-> "", reason |-> "", missing |-> {}, summary |-> JNone]
    ELSE IF source.kind = "invalid"
    THEN [exit |-> 1, message |-> "ERROR: Invalid JSON in summary file",
          reason |-> "", missing |-> {}, summary |-> JNone]
    ELSE IF ~Truthy(source.value)
    THEN [exit |-> 0, message |-> "", reason |-> "", missing |-> {}, summary |-> JNone]
    ELSE LET validation == validate_summary(source.value, id)
         IN IF validation.status = "raised"
            THEN [exit |-> 1, message |-> "ERROR: Summary validation failed",
                  reason |-> validation.reason, missing |-> validation.missing,
                  summary |-> JNone]
            ELSE [exit |-> 0, message |-> "Summary validated",
                  reason |-> "", missing |-> {}, summary |-> validation.value]

\* lines 107-125: video_entry
VideoEntry(args, loaded_summary, now) ==
    LET e0 == [id |-> JStr(args.video_id), title |-> JStr(args.title),
               channel |-> JStr(args.channel), duration |-> JInt(args.duration),
               view_count |-> JInt(args.view_count), like_count |-> JInt(args.like_count),
               insights_count |-> JInt(args.insights_count), analyzed_at |-> JInt(now)]
        e1 == IF Truthy(args.thumbnail) THEN Put(e0, "thumbnail", args.thumbnail) ELSE e0
        e2 == IF Truthy(args.source_url) THEN Put(e1, "source_url", args.source_url) ELSE e1
    IN IF Truthy(loaded_summary) THEN Put(e2, "summary", loaded_summary) ELSE e2

\* a variant that preserves nothing
PreserveNothing(entry, loaded_summary, existing) == entry

\* lines 136-137: preserve summary if not provided
PreserveSummary(entry, loaded_summary, existing) ==
    IF ~Truthy(loaded_summary) /\ "summary" \in DOMAIN existing.v
    THEN Put(entry, "summary", existing.v["summary"])
    ELSE entry

\* a variant that appends the entry whether or not the id is in the store
UpsertAlwaysAppends(vs, id, entry, loaded_summary) == Append(vs, JDict(entry))

\* lines 128-142: data["videos"] with the entry put in
Upsert(vs, id, entry, loaded_summary) ==
    IF IndicesOf(vs, id) # {}
    THEN LET existing_idx == Least(IndicesOf(vs, id))
         IN [vs EXCEPT ![existing_idx] =
                JDict(PreserveSummary(entry, loaded_summary, vs[existing_idx]))]
    ELSE Append(vs, JDict(entry))

RecordVideo(args, source) ==
    LET data == LoadData
        loaded == LoadSummary(source, args.video_id)
        entry == VideoEntry(args, loaded.summary, clock)
    IN /\ clock' = clock + 1
       /\ IF loaded.exit # 0
          THEN /\ UNCHANGED <<exists, videos, updated_at, expected>>
               /\ last' = Report("record_video", args.video_id, source, 1, loaded.message,
                                 loaded.reason, loaded.missing)
          ELSE /\ videos' = Upsert(data.videos, args.video_id, entry, loaded.summary)
               /\ updated_at' = JInt(clock)
               /\ exists' = TRUE
               /\ expected' =
                    IF Truthy(loaded.summary)
                    THEN Put(expected, args.video_id, loaded.summary)
                    ELSE IF args.video_id \in DOMAIN expected THEN expected
                    ELSE Put(expected, args.video_id, Absent)
               /\ last' = Report("record_video", args.video_id, source, 0,
                                 IF IndicesOf(data.videos, args.video_id) # {}
                                 THEN "Updated existing record" ELSE "Added new record",
                                 "", {})

(***************************************************************************)
(* import_summaries.py: main. items is SUMMARY_DIR.iterdir(), in the order *)
(* the directory gives them: each has a name, is a file or a directory,    *)
(* and has the text of the file or of its summary.txt (Absent without one).*)
(***************************************************************************)
\* Path(name).suffix and Path(name).stem
LastDot(name) ==
    LET dots == {i \in 2..Len(name) : name[i] = "."}
    IN IF dots = {} \/ Greatest(dots) = Len(name) THEN Len(name) + 1 ELSE Greatest(dots)

Suffix(name) == SubSeq(name, LastDot(name), Len(name))
Stem(name) == SubSeq(name, 1, LastDot(name) - 1)

\* s.split('_')[0]
BeforeUnderscore(s) ==
    LET at == {i \in 1..Len(s) : s[i] = "_"}
    IN IF at = {} THEN s ELSE SubSeq(s, 1, Least(at) - 1)

\* lines 101-112: video_id and content of an item
ItemVideoId(item) ==
    IF item.is_file /\ Suffix(item.name) = <<".", "m", "d">>
    THEN BeforeUnderscore(Stem(item.name))
    ELSE IF ~item.is_file THEN item.name ELSE <<>>

ItemContent(item) ==
    IF item.is_file /\ Suffix(item.name) # <<".", "m", "d">> THEN Absent ELSE item.text

\* video_map = {v["id"]: i for i, v in enumerate(data["videos"])}
VideoMapHas(vs, id) == IndicesOf(vs, id) # {}
VideoMap(vs, id) == Greatest(IndicesOf(vs, id))

\* a variant that takes every entry to lack a summary
LacksSummaryAlways(entry) == TRUE

\* "summary" not in data["videos"][idx] or not data["videos"][idx]["summary"]
LacksSummary(entry) == "summary" \notin DOMAIN entry.v \/ ~Truthy(entry.v["summary"])

\* summary.get("ideas") or summary.get("insights")
HasContent(parsed) ==
    \/ Truthy(Get(parsed.v, "ideas", JNone))
    \/ Truthy(Get(parsed.v, "insights", JNone))

\* lines 114-122: one iteration of the loop over the items. video_map is built from
\* the entries loaded, which the loop neither adds to nor reorders.
ImportItem(vs, item) ==
    LET id == ItemVideoId(item)
        text == ItemContent(item)
    IN IF id # <<>> /\ text # Absent /\ text.v # <<>> /\ VideoMapHas(vs, id)
       THEN LET idx == VideoMap(vs, id)
                parsed == parse_markdown_summary(text.v, id)
            IN IF LacksSummary(vs[idx]) /\ HasContent(parsed)
               THEN [vs EXCEPT ![idx] =
                        JDict(Put(Put(vs[idx].v, "summary", parsed), "insights_count",
                                  JInt(Len(GetList(parsed.v, "ideas")))))]
               ELSE vs
       ELSE vs

RECURSIVE ImportItems(_, _)
ImportItems(vs, items) ==
    IF items = <<>> THEN vs ELSE ImportItems(ImportItem(vs, Head(items)), Tail(items))

\* the summaries stored, per id of the store
SummariesOf(vs) ==
    [id \in {vs[i].v["id"].v : i \in 1..Len(vs)} |->
        StoredSummary(vs[Least(IndicesOf(vs, id))])]

ImportSummaries(items) ==
    /\ clock' = clock + 1
    /\ IF ~exists
       THEN \* open(DATA_FILE) raises FileNotFoundError
            /\ UNCHANGED <<exists, videos, updated_at, expected>>
            /\ last' = Report("import_summaries", <<>>, Listing(items), 1,
                              "FileNotFoundError", "", {})
       ELSE /\ videos' = ImportItems(videos, items)
            /\ UNCHANGED <<exists, updated_at>>
            /\ expected' = SummariesOf(videos')
            /\ last' = Report("import_summaries", <<>>, Listing(items), 0, "Done!", "", {})

(***************************************************************************)
(* import_history.py: main. found is TRANSCRIPT_DIR.iterdir(), in the      *)
(* order the directory gives them: each has a name, is a directory or not, *)
(* has a transcript.txt or not, the mtime of that file, and the metadata   *)
(* get_video_metadata returns for it (JNone when the fetch fails). The     *)
(* directory of DATA_FILE exists.                                          *)
(***************************************************************************)
IdLength == 11

\* lines 52-61: new_videos
NewVideos(vs, found) ==
    SelectSeq(found, LAMBDA item :
        /\ item.is_dir /\ item.name # <<".", "g", "i", "t", "k", "e", "e", "p">>
        /\ Len(item.name) = IdLength
        /\ item.has_transcript
        /\ IndicesOf(vs, item.name) = {})

\* lines 76-85: video_entry
HistoryEntry(item) ==
    JDict([id |-> JStr(item.name), title |-> item.metadata.v["title"],
           channel |-> item.metadata.v["channel"], duration |-> item.metadata.v["duration"],
           view_count |-> item.metadata.v["view_count"],
           like_count |-> item.metadata.v["like_count"],
           insights_count |-> JInt(0), analyzed_at |-> JInt(item.mtime)])

\* lines 64-87: the entries the loop appends
HistoryEntries(vs, found) ==
    MapSeq(HistoryEntry, SelectSeq(NewVideos(vs, found), LAMBDA item : Truthy(item.metadata)))

ImportHistory(found) ==
    LET data == LoadData
    IN /\ clock' = clock + 1
       /\ videos' = data.videos \o HistoryEntries(data.videos, found)
       /\ updated_at' = JInt(clock)
       /\ exists' = TRUE
       /\ expected' = SummariesOf(videos')
       /\ last' = Report("import_history", <<>>, Listing(found), 0, "Done!", "", {})

(***************************************************************************)
(* The runs of the three programs on one data store                        *)
(***************************************************************************)
MaxRuns == 2

\* an 11-character video id
Id(c) == <<"v", "i", "d", "-", "-", "-", "-", "-", "-", "-", c>>
Ids == {Id("1"), Id("2")}

Text(word) == JStr(<<word>>)

\* the command lines of record_video.py
PlainArgs(id) ==
    [video_id |-> id, title |-> <<"T">>, channel |-> <<"C">>, duration |-> 60,
     view_count |-> 0, like_count |-> 0, insights_count |-> 0,
     thumbnail |-> JNone, source_url |-> JNone]

RichArgs(id) ==
    [video_id |-> id, title |-> <<"T", "2">>, channel |-> <<"C">>, duration |-> 90,
     view_count |-> 7, like_count |-> 1, insights_count |-> 2,
     thumbnail |-> Text("thumb"), source_url |-> Text("url")]

ArgsSet == {PlainArgs(id) : id \in Ids} \cup {RichArgs(Id("1"))}

SummaryA == [tldr |-> Text("x"), ideas |-> JList(<<>>), insights |-> JList(<<>>)]
SummaryB ==
    [tldr |-> Text("y"), ideas |-> JList(<<Text("a")>>), insights |-> JList(<<Text("b")>>)]

\* the JSON values --summary can hold: empty ones, ones validate_summary rejects for
\* each of its reasons, valid ones, and a nested one
RawSummaries ==
    { JDict(EmptyDict), JList(<<>>), JStr(<<>>), JInt(0), JNone,
      JList(<<Text("a")>>), Text("x"),
      JDict([tldr |-> Text("x")]),
      JDict([tldr |-> Text(" "), ideas |-> JList(<<>>), insights |-> JList(<<>>)]),
      JDict([tldr |-> Text("x"), ideas |-> Text("a"), insights |-> JList(<<>>)]),
      JDict([tldr |-> Text("x"), ideas |-> JList(<<>>), insights |-> JNone]),
      JDict(SummaryA), JDict(SummaryB),
      JDict([status |-> Text("ok"), summary |-> JDict(SummaryB)]) }

Sources == {NoSummaryOption, InvalidJson} \cup {JsonSummary(raw) : raw \in RawSummaries}

IdeasDoc ==
    <<"#", " ", "IDEAS", NL, "-", " ", "a", " ", "[", "[", "1", ":", "0", "5", "]", "]",
      "(", "u", ")", NL, "-", " ", "b", NL>>
InsightsDoc == <<"#", " ", "INSIGHTS", NL, "-", " ", "c", NL>>
EmptyIdeasDoc == <<"#", " ", "IDEAS", NL, "x", NL>>

File(name, text) == [name |-> name, is_file |-> TRUE, text |-> text]
Dir(name, text) == [name |-> name, is_file |-> FALSE, text |-> text]

\* what SUMMARY_DIR can hold: .md files named by id, other files, and directories
\* with or without a summary.txt
SummaryItems ==
    { File(Id("1") \o <<"_", "x", ".", "m", "d">>, JStr(IdeasDoc)),
      File(Id("1") \o <<".", "m", "d">>, JStr(EmptyIdeasDoc)),
      File(Id("2") \o <<".", "t", "x", "t">>, JStr(IdeasDoc)),
      Dir(Id("1"), JStr(InsightsDoc)),
      Dir(Id("2"), Absent) }

MaxItems == 2

\* the listings of a directory that holds up to n of the items, in any order
Listings(items, n) ==
    {l \in UNION {[1..k -> items] : k \in 0..n} :
        \A i, j \in 1..Len(l) : i # j => l[i].name # l[j].name}

Metadata ==
    JDict([title |-> Text("H"), channel |-> Text("C"), duration |-> JInt(30),
           view_count |-> JInt(5), like_count |-> JInt(0)])

Transcript(name, has_transcript, metadata) ==
    [name |-> name, is_dir |-> TRUE, has_transcript |-> has_transcript,
     mtime |-> 0, metadata |-> metadata]

\* what TRANSCRIPT_DIR can hold
TranscriptItems ==
    { Transcript(Id("1"), TRUE, Metadata), Transcript(Id("2"), TRUE, Metadata),
      Transcript(Id("2"), TRUE, JNone), Transcript(Id("2"), FALSE, Metadata),
      Transcript(<<"x">>, TRUE, Metadata) }

\* the stores the runs start from: entries with distinct ids, as record_video writes
\* them, with and without a summary
InitialVideos ==
    LET entry(id, stored) == JDict(VideoEntry(PlainArgs(id), stored, 0))
        validated(f, id) == validate_summary(JDict(f), id).value
    IN { <<>>,
         <<entry(Id("1"), JNone)>>,
         <<entry(Id("1"), validated(SummaryB, Id("1")))>>,
         <<entry(Id("1"), validated(SummaryA, Id("1"))), entry(Id("2"), JNone)>> }

NoReport == Report("", <<>>, NoSummaryOption, 0, "", "", {})

NoOutcome ==
    [status |-> "pending", reason |-> "", missing |-> {}, value |-> Absent,
     arg |-> Absent, warned |-> FALSE, given |-> Absent]

NoViz == [mindmap |-> Absent, stats |-> Absent, viz_data |-> Absent, suggested_viz |-> Absent]

ExtractIdle == content = <<>> /\ summary = Absent /\ viz = NoViz
ValidateIdle == candidate = Absent /\ video_id = <<>> /\ outcome = NoOutcome
StoreIdle ==
    /\ exists = FALSE /\ videos = <<>> /\ updated_at = JNone
    /\ clock = 1 /\ last = NoReport /\ expected = EmptyDict

Init ==
    /\ \/ exists = FALSE /\ videos = <<>> /\ updated_at = JNone
       \/ exists = TRUE /\ videos \in InitialVideos /\ updated_at = JInt(0)
    /\ clock = 1
    /\ last = NoReport
    /\ expected = SummariesOf(videos)
    /\ ExtractIdle
    /\ ValidateIdle

RunRecordVideo ==
    /\ clock <= MaxRuns
    /\ \E args \in ArgsSet, source \in Sources : RecordVideo(args, source)
    /\ UNCHANGED <<extractVars, validateVars>>

RunImportSummaries ==
    /\ clock <= MaxRuns
    /\ \E items \in Listings(SummaryItems, MaxItems) : ImportSummaries(items)
    /\ UNCHANGED <<extractVars, validateVars>>

RunImportHistory ==
    /\ clock <= MaxRuns
    /\ \E found \in Listings(TranscriptItems, MaxItems) : ImportHistory(found)
    /\ UNCHANGED <<extractVars, validateVars>>

Next == RunRecordVideo \/ RunImportSummaries \/ RunImportHistory

Spec == Init /\ [][Next]_vars

(***************************************************************************)
(* The calls of validate_summary: one call on each candidate               *)
(***************************************************************************)
\* the values a required field can hold, Absent for a field that is not a key
TldrValues == {Absent, Text("x"), JStr(<<" ", NL>>), JInt(5)}
IdeasValues == {Absent, JList(<<>>), JList(<<Text("a")>>), Text("a")}
InsightsValues == {Absent, JList(<<>>), JNone}

\* the mappings of required fields, with and without fields of their own beside them
Fields ==
    {DictOf([tldr |-> t, ideas |-> i, insights |-> n, status |-> st, other |-> st]) :
        t \in TldrValues, i \in IdeasValues, n \in InsightsValues,
        st \in {Absent, Text("inner")}}

\* the outer fields of a candidate: in and out of metadata_fields, a videoId of the
\* caller's, and a required field that a nested mapping may also carry
Outers ==
    { EmptyDict,
      [status |-> Text("ok")],
      [status |-> Text("ok"), title |-> Text("T"), note |-> Text("n"), videoId |-> Text("old")],
      [tldr |-> Text("outer"), likes |-> JInt(3)] }

\* the keys that hold a nested mapping
NestKeys == {"summary", "data"}

Candidates ==
    {JDict(f) : f \in Fields}
    \cup {JDict(Update(f, o)) : f \in Fields, o \in Outers}
    \cup {JDict(Put(o, k, JDict(f))) : o \in Outers, k \in NestKeys, f \in Fields}
    \cup {JDict(Put(f, "summary", Text("s"))) : f \in Fields}
    \cup {JList(<<>>), JList(<<Text("a")>>), Text("x"), JInt(1), JNone}

InitValidate ==
    /\ StoreIdle
    /\ ExtractIdle
    /\ candidate \in Candidates
    /\ video_id \in Ids
    /\ outcome = NoOutcome

\* a caller holds candidate and calls validate_summary(candidate, video_id): outcome is
\* what the call gave, together with the candidate as it was given; candidate is the
\* caller's object after the call
ValidateSummary ==
    /\ outcome.status = "pending"
    /\ LET result == validate_summary(candidate, video_id)
       IN /\ outcome' = [status |-> result.status, reason |-> result.reason,
                         missing |-> result.missing, value |-> result.value,
                         arg |-> result.arg, warned |-> result.warned,
                         given |-> candidate]
          /\ candidate' = result.arg
    /\ UNCHANGED <<storeVars, extractVars, video_id>>

NextValidate == ValidateSummary

SpecValidate == InitValidate /\ [][NextValidate]_vars

(***************************************************************************)
(* The calls of parse_markdown_summary and generate_viz_data: a document   *)
(* is parsed and the summary it gives is visualised, or a summary recorded *)
(* as JSON is visualised.                                                  *)
(***************************************************************************)
\* the longest lists of bullets a section of a document holds: one over each limit
MaxIdeas == 16
MaxInsights == 11
MaxQuotes == 6
MaxFacts == 9

\* the two digits of k
Label(k) ==
    LET digit == <<"0", "1", "2", "3", "4", "5", "6", "7", "8", "9">>
    IN <<digit[(k \div 10) + 1], digit[(k % 10) + 1]>>

\* the timestamp of bullet k, minute k second 05, in each spelling, and none
TimestampStyles == {"none", "double linked", "single linked", "double", "single"}
Timestamp(k, style) ==
    LET time == Label(k) \o <<":", "0", "5">>
        link == <<"(", "u", ")">>
    IN CASE style = "none" -> <<>>
         [] style = "double linked" -> <<" ", "[", "[">> \o time \o <<"]", "]">> \o link
         [] style = "single linked" -> <<" ", "[">> \o time \o <<"]">> \o link
         [] style = "double" -> <<" ", "[", "[">> \o time \o <<"]", "]">>
         [] style = "single" -> <<" ", "[">> \o time \o <<"]">>

\* the numbers in the text of fact k: none, k percent, or one of three percentages
\* twice and one of two amounts
FactStyles == {"plain", "percent", "repeated"}
Percent(k, style) ==
    CASE style = "plain" -> <<>>
      [] style = "percent" -> <<" ">> \o Label(k) \o <<"%">>
      [] style = "repeated" -> <<" ">> \o Label(k % 3) \o <<" ", "%", " ", "$">> \o Label(k % 2)
                               \o <<" ">> \o Label(k % 3) \o <<"%">>

\* n lines, the k-th being "- " and Line(k)
Bullets(n, Line(_)) == Flatten([k \in 1..n |-> <<"-", " ">> \o Line(k) \o <<NL>>])

\* a section: its heading and its lines; none without lines
Block(heading, lines) == IF lines = <<>> THEN <<>> ELSE <<"#", " ", heading, NL>> \o lines

Doc(p) ==
    Block("SUMMARY", IF p.tldr THEN <<"s", NL>> ELSE <<>>)
    \o Block("IDEAS", Bullets(p.ideas, LAMBDA k : <<"i">> \o Label(k) \o Timestamp(k, p.style)))
    \o Block("INSIGHTS", Bullets(p.insights, LAMBDA k : <<"n">> \o Label(k)))
    \o Block("QUOTES", Bullets(p.quotes, LAMBDA k : <<"\"", "q">> \o Label(k)
                                                      \o <<"\"", " ", "-", " ", "Speaker">>))
    \o Block("FACTS", Bullets(p.facts, LAMBDA k : <<"f">> \o Label(k) \o Percent(k, p.numbers)))
    \o Block("TAKEAWAY", IF p.takeaway THEN <<"k", NL>> ELSE <<>>)

\* documents that vary the ideas, and documents that vary the other lists
DocParams ==
    [ideas : {1, 2, 3, 4, IdeasLimit, MaxIdeas}, style : TimestampStyles,
     insights : {0, 1}, quotes : {0}, facts : {0}, numbers : {"plain"},
     tldr : {TRUE}, takeaway : BOOLEAN]
    \cup
    [ideas : {0, 3}, style : {"none"},
     insights : {0, InsightsLimit, MaxInsights}, quotes : {0, QuotesLimit, MaxQuotes},
     facts : {0, FactsLimit, MaxFacts}, numbers : FactStyles,
     tldr : BOOLEAN, takeaway : {FALSE}]
    \cup
    [ideas : {MaxIdeas}, style : {"none"}, insights : {MaxInsights}, quotes : {MaxQuotes},
     facts : {MaxFacts}, numbers : {"percent"}, tldr : {TRUE}, takeaway : {TRUE}]

\* one idea with the timestamp 12:05, without and with a link
ExampleDocs ==
    { <<"#", " ", "IDEAS", NL, "-", " ", "a", " ", "[", "[", "1", "2", ":", "0", "5", "]", "]">>,
      <<"#", " ", "IDEAS", NL, "-", " ", "a", " ", "[", "[", "1", "2", ":", "0", "5", "]", "]",
        "(", "u", ")">> }

Documents == {Doc(p) : p \in DocParams} \cup ExampleDocs

\* summaries recorded as JSON: the ideas are strings, with and without numbers and the
\* words of a comparison
MaxTexts == 10
IdeaStyles == {"plain", "numbers", "versus"}
IdeaString(k, style) ==
    JStr(CASE style = "plain" -> <<"i">> \o Label(k)
           [] style = "numbers" -> <<"i", " ", "$">> \o Label(k % 4) \o <<" ">> \o Label(k % 5)
                                   \o <<"%", " ">> \o Label(k) \o <<" ", "U+5E74">>
           [] style = "versus" -> <<"a", " ", "v", "s", " ", "b">> \o Label(k))

RecordedSummaries ==
    {JDict(DictOf(
        [ideas |-> IF n = 0 THEN Absent ELSE JList([k \in 1..n |-> IdeaString(k, style)]),
         facts |-> IF facts THEN JList([k \in 1..7 |-> JStr(<<"f">> \o Percent(k, "percent"))])
                   ELSE Absent,
         insights |-> rest.insights, takeaway |-> rest.takeaway, tldr |-> tldr])) :
        n \in {0, 2, 3, 4, 9, MaxTexts}, style \in IdeaStyles, facts \in BOOLEAN,
        rest \in {[insights |-> Absent, takeaway |-> Absent],
                  [insights |-> JList(<<>>), takeaway |-> JStr(<<>>)],
                  [insights |-> JList([k \in 1..4 |-> JStr(<<"n">> \o Label(k))]),
                   takeaway |-> Absent],
                  [insights |-> Absent, takeaway |-> Text("k")]},
        tldr \in {Absent, Text("s"), JStr([k \in 1..(RootLimit + 1) |-> "s"])}}

InitExtract ==
    /\ StoreIdle
    /\ ValidateIdle
    /\ viz = NoViz
    /\ \/ content \in Documents /\ summary = Absent
       \/ content = <<>> /\ summary \in RecordedSummaries

\* summary = parse_markdown_summary(content, video_id)
ParseMarkdownSummary ==
    /\ summary = Absent
    /\ summary' = parse_markdown_summary(content, Id("1"))
    /\ UNCHANGED <<storeVars, validateVars, content, viz>>

\* viz_data, suggested_viz = generate_viz_data(summary)
GenerateVizData ==
    /\ summary # Absent
    /\ viz = NoViz
    /\ viz' = generate_viz_data(summary.v)
    /\ UNCHANGED <<storeVars, validateVars, content, summary>>

NextExtract == ParseMarkdownSummary \/ GenerateVizData

SpecExtract == InitExtract /\ [][NextExtract]_vars

(***************************************************************************)
(* Properties                                                              *)
(***************************************************************************)
\* the entry has a stored summary with non-empty ideas or insights
HasStoredContent(entry) ==
    /\ "summary" \in DOMAIN entry.v
    /\ entry.v["summary"].t = "dict"
    /\ HasContent(entry.v["summary"])

\* the listing holds a document for the entry that parses to ideas or insights,
\* and to another summary than s
OffersOther(listing, entry, s) ==
    \E k \in 1..Len(listing) :
        /\ JStr(ItemVideoId(listing[k])) = entry.v["id"]
        /\ ItemContent(listing[k]) # Absent
        /\ HasContent(parse_markdown_summary(ItemContent(listing[k]).v, entry.v["id"].v))
        /\ parse_markdown_summary(ItemContent(listing[k]).v, entry.v["id"].v) # s

\* C1: a run of import_summaries.main leaves every video that has a stored summary
\* with non-empty ideas or insights as it was: the entry is still there, with the
\* same summary and the same insights_count, whatever the summary files hold.
ImportKeepsStoredSummaries ==
    [][last'.op = "import_summaries" =>
        \A i \in 1..Len(videos) :
            HasStoredContent(videos[i]) =>
                /\ i <= Len(videos')
                /\ StoredSummary(videos'[i]) = StoredSummary(videos[i])
                /\ videos'[i].v["insights_count"] = videos[i].v["insights_count"]]_vars

\* a run of import_summaries has ended, on a listing with a document for a video whose
\* stored summary has ideas, and the stored summary is not the one of the document
ImportSkippedStoredSummary ==
    /\ last.op = "import_summaries"
    /\ last.exit = 0
    /\ \E i \in 1..Len(videos) :
        /\ HasStoredContent(videos[i])
        /\ OffersOther(last.source.value, videos[i], StoredSummary(videos[i]))

\* group 1 of the section's pattern in the document parsed, "" without a match
Body(pattern) ==
    LET group == Group1(pattern, content) IN IF group = Absent THEN <<>> ELSE group.v

\* l is the first n items of all, in order, or all of them when they are fewer
IsFirst(l, all, n) ==
    /\ Len(l) <= n
    /\ Len(l) = Min(Len(all), n)
    /\ \A k \in 1..Len(l) : l[k] = all[k]

\* the iterations of the scan of extract_stats over a summary, in order
Scanned(f) == Matches(AllText(f))

\* the iterations of a scan that meet their value for the first time
FirstSeen(scanned) ==
    {k \in 1..Len(scanned) : \A j \in 1..(k - 1) : scanned[j].val # scanned[k].val}

\* the n-th of them
NthOf(firsts, n) == CHOOSE k \in firsts : Cardinality({j \in firsts : j < k}) = n - 1

\* the values of the stats are those of the first n first meetings of the scan
AreFirstValues(stats, scanned, firsts, n) ==
    /\ Len(stats) <= n
    /\ Len(stats) = Min(Cardinality(firsts), n)
    /\ \A i \in 1..Len(stats) : stats[i].v["value"] = JStr(scanned[NthOf(firsts, i)].val)

\* C2: the summary parse_markdown_summary returns has at most 15 ideas, 10 insights,
\* 5 quotes and 8 facts, and extract_stats returns at most 6 stats; each list is the
\* first items, in order, of what the document (the scan) gives before the limit.
ListsKeepFirstItems ==
    /\ (summary # Absent /\ content # <<>>) =>
        /\ IsFirst(GetList(summary.v, "ideas"), AllIdeas(Body(IdeasPattern)), 15)
        /\ IsFirst(GetList(summary.v, "insights"), AllInsights(Body(InsightsPattern)), 10)
        /\ IsFirst(GetList(summary.v, "quotes"), AllQuotes(Body(QuotesPattern)), 5)
        /\ IsFirst(GetList(summary.v, "facts"), AllFacts(Body(FactsPattern)), 8)
    /\ viz # NoViz =>
        \A scanned \in {Scanned(summary.v)} : \A firsts \in {FirstSeen(scanned)} :
            AreFirstValues(viz.stats.v, scanned, firsts, 6)

\* a document with more bullets than the limit in every section has been parsed and
\* visualised, every list is at its limit, and the scan met more than 6 values
EveryListAtItsLimit ==
    /\ content # <<>> /\ summary # Absent /\ viz # NoViz
    /\ Len(AllIdeas(Body(IdeasPattern))) > 15 /\ Len(GetList(summary.v, "ideas")) = 15
    /\ Len(AllInsights(Body(InsightsPattern))) > 10 /\ Len(GetList(summary.v, "insights")) = 10
    /\ Len(AllQuotes(Body(QuotesPattern))) > 5 /\ Len(GetList(summary.v, "quotes")) = 5
    /\ Len(AllFacts(Body(FactsPattern))) > 8 /\ Len(GetList(summary.v, "facts")) = 8
    /\ Cardinality(FirstSeen(Scanned(summary.v))) > 6 /\ Len(viz.stats.v) = 6

\* the label extract_stats gives a value met in the text
LabelOf(text) == JStr(Strip(Take(text, 20)))

\* the stats have pairwise distinct values, each with the label of the first
\* iteration of the scan that gave the value
AreDistinct(stats, scanned) ==
    /\ \A a, b \in 1..Len(stats) : a # b => stats[a].v["value"] # stats[b].v["value"]
    /\ \A n \in 1..Len(stats) :
          LET first == Least({k \in 1..Len(scanned) :
                                JStr(scanned[k].val) = stats[n].v["value"]})
          IN stats[n].v["label"] = LabelOf(scanned[first].text)

\* C3: the stats extract_stats returns have pairwise distinct values, and each has
\* the label of the first iteration of the scan (facts before ideas, patterns in
\* their order within a text) that gave its value.
StatsValuesDistinct ==
    viz # NoViz => \A scanned \in {Scanned(summary.v)} : AreDistinct(viz.stats.v, scanned)

\* the scan met a value of the stats in a fact and again in another text
MetAgain(stats, scanned, facts) ==
    \E j, k \in 1..Len(scanned) :
        /\ j < k /\ scanned[j].val = scanned[k].val /\ scanned[j].text # scanned[k].text
        /\ \E i \in 1..Len(facts) : facts[i] = JStr(scanned[j].text)
        /\ \E n \in 1..Len(stats) : stats[n].v["value"] = JStr(scanned[j].val)

\* the stats hold a value that the scan met in a fact and again in an idea
StatsMetValueAgain ==
    /\ viz # NoViz
    /\ \E scanned \in {Scanned(summary.v)} :
          MetAgain(viz.stats.v, scanned, GetList(summary.v, "facts"))

\* the candidate given holds, under the key, a mapping carrying a required field
Carries(f, key) ==
    /\ key \in DOMAIN f
    /\ f[key].t = "dict"
    /\ DOMAIN f[key].v \cap {"tldr", "ideas", "insights"} # {}

\* the outer fields of the allow-list, overlaid with the fields of the mapping
\* nested under the key
Overlaid(f, key) ==
    [k \in (DOMAIN f \cap {"status", "video_id", "title", "channel", "duration",
                           "views", "likes"}) \cup DOMAIN f[key].v |->
        IF k \in DOMAIN f[key].v THEN f[key].v[k] ELSE f[k]]

\* the candidate given, after the repair step
Repaired(f) == IF Carries(f, "summary") THEN Overlaid(f, "summary") ELSE f

\* C4: for a candidate that is a mapping, validate_summary fails with the
\* missing-fields error exactly when, after the repair step, one of tldr, ideas,
\* insights is not a key of it, whatever the shape of the fields it has, and the
\* error names exactly the required fields that are absent.
MissingFieldsNamed ==
    (outcome.status # "pending" /\ outcome.given.t = "dict") =>
        \A absent \in {{"tldr", "ideas", "insights"} \ DOMAIN Repaired(outcome.given.v)} :
            /\ (outcome.reason = "Summary missing required fields") <=> (absent # {})
            /\ absent # {} => outcome.status = "raised" /\ outcome.missing = absent

\* validate_summary was called on {tldr: "x"} and failed, naming ideas and insights
MissingIdeasAndInsights ==
    /\ outcome.given = JDict([tldr |-> Text("x")])
    /\ outcome.status = "raised"
    /\ outcome.reason = "Summary missing required fields"
    /\ outcome.missing = {"ideas", "insights"}

\* the record has the required fields in their shapes
WellFormed(f) ==
    /\ {"tldr", "ideas", "insights"} \subseteq DOMAIN f
    /\ f["tldr"].t = "str" /\ Strip(f["tldr"].v) # <<>>
    /\ f["ideas"].t = "list"
    /\ f["insights"].t = "list"

\* the call succeeded or failed on the record, returning it with the videoId set
DecidedOn(f) ==
    /\ (outcome.status = "returned") <=> WellFormed(f)
    /\ outcome.status = "returned" =>
          outcome.value = JDict(Put(f, "videoId", JStr(video_id)))

\* C5, as stated: a mapping nested under any field of the candidate and carrying one
\* of tldr, ideas, insights is flattened before the checks.
AnyNestedMappingFlattened ==
    (outcome.status # "pending" /\ outcome.given.t = "dict") =>
        \A key \in DOMAIN outcome.given.v :
            Carries(outcome.given.v, key) => DecidedOn(Overlaid(outcome.given.v, key))

\* C5, amended: a mapping nested under the field named summary and carrying one of
\* tldr, ideas, insights is flattened before the checks (allow-listed outer fields,
\* overlaid with the nested fields, the nested value winning; every other outer field
\* dropped), with the warning; a candidate without one is checked as it is.
NestedSummaryFlattened ==
    (outcome.status # "pending" /\ outcome.given.t = "dict") =>
        IF Carries(outcome.given.v, "summary")
        THEN outcome.warned /\ DecidedOn(Overlaid(outcome.given.v, "summary"))
        ELSE ~outcome.warned /\ DecidedOn(outcome.given.v)

\* validate_summary was called on a candidate with a nested summary, an outer status
\* that the nested mapping also has, and an outer note, and returned the flattened
\* record: the nested status, no note
NestedSummaryReturned ==
    /\ outcome.status = "returned"
    /\ outcome.warned
    /\ Carries(outcome.given.v, "summary")
    /\ {"status", "note"} \subseteq DOMAIN outcome.given.v
    /\ "status" \in DOMAIN outcome.given.v["summary"].v
    /\ outcome.given.v["status"] # outcome.given.v["summary"].v["status"]
    /\ outcome.value.v["status"] = outcome.given.v["summary"].v["status"]
    /\ "note" \notin DOMAIN outcome.value.v

\* the summary visualised has neither insights nor a takeaway
OnlyIdeas(f) ==
    /\ ~Truthy(Get(f, "insights", JNone))
    /\ ~Truthy(Get(f, "takeaway", JNone))

\* the branches of the mindmap in viz_data, none without a mindmap
Branches(viz_data) ==
    IF "mindmap" \in DOMAIN viz_data THEN viz_data["mindmap"].v["children"].v ELSE <<>>

HasToken(text) == Search(TimestampPattern, text) # <<>>

\* MM * 60 + SS of the first token of the text
Seconds(text) ==
    \* the groups of the first match: the digits before and after the colon
    LET token == Search(TimestampPattern, text)
    IN ToInt(GroupOf(text, token, 2)) * 60 + ToInt(GroupOf(text, token, 4))

\* the idea is what the claim expects of the text of its bullet
IdeaAsClaimed(idea, text) ==
    IF HasToken(text)
    THEN /\ idea.v["timestamp"] = JInt(Seconds(text))
         /\ ~HasToken(idea.v["text"].v)
    ELSE /\ idea.v["timestamp"] = JNone
         /\ idea.v["text"] = JStr(text)

\* C7: every IDEAS bullet whose text holds a timestamp token [[MM:SS]] or [MM:SS],
\* with or without a link after it, gives an idea whose timestamp is MM*60+SS and
\* whose text no longer holds the token; a bullet without a token gives the
\* timestamp null and its text unchanged.
TimestampTokenRemoved ==
    (summary # Absent /\ content # <<>>) =>
        \A texts \in {BulletTexts(Body(IdeasPattern))} :
        \A ideas \in {GetList(summary.v, "ideas")} :
            \A k \in 1..Len(ideas) : IdeaAsClaimed(ideas[k], texts[k])

\* C8: the candidate the caller passed to validate_summary has the same keys and
\* values after the call as before it, whether the call returned or raised; the
\* videoId set is on the record returned.
CandidateLeftAsGiven ==
    outcome.status # "pending" =>
        /\ candidate = outcome.given
        /\ outcome.status = "returned" => outcome.value.v["videoId"] = JStr(video_id)

\* the step is a run of record_video on a JSON value that validate_summary rejects
RejectedRun ==
    /\ last'.op = "record_video"
    /\ last'.source.kind = "json"
    /\ validate_summary(last'.source.value, last'.id).status = "raised"

\* the step reports the reason of validate_summary and leaves the store as it was
ReportsAndWritesNothing ==
    /\ last'.exit = 1
    /\ last'.message = "ERROR: Summary validation failed"
    /\ last'.reason = validate_summary(last'.source.value, last'.id).reason
    /\ last'.missing = validate_summary(last'.source.value, last'.id).missing
    /\ UNCHANGED <<exists, videos, updated_at>>

\* C9, as stated: a run of record_video with a summary that fails validation reports
\* the validation reason and ends without writing the store.
RejectedSummaryNeverWritten == [][RejectedRun => ReportsAndWritesNothing]_vars

\* C9, amended: a run of record_video with a non-empty summary that fails validation
\* reports the validation reason and ends without writing the store; an empty JSON
\* value is not validated: the run goes on as one without a summary and writes the
\* store.
NonEmptyRejectedSummaryNotWritten ==
    [][RejectedRun =>
        IF Truthy(last'.source.value)
        THEN ReportsAndWritesNothing
        ELSE last'.exit = 0 /\ exists' /\ updated_at' = JInt(clock)]_vars

\* a run of record_video for a video of the store has ended on a summary that lacks
\* required fields, reporting them
RejectedRunEnded ==
    /\ last.op = "record_video"
    /\ last.exit = 1
    /\ last.reason = "Summary missing required fields"
    /\ last.missing = {"ideas", "insights"}
    /\ IndicesOf(videos, last.id) # {}

\* the step is a run of record_video that writes the store and supplies no summary
\* (none given, or an empty JSON value), for a video that is in the store
UpdateWithoutSummary ==
    /\ last'.op = "record_video"
    /\ last'.exit = 0
    /\ ~(last'.source.kind = "json" /\ Truthy(last'.source.value))
    /\ IndicesOf(videos, last'.id) # {}

\* C10: a run of record_video that updates an entry of the store and supplies no
\* summary carries the stored summary of the entry over unchanged; after any runs,
\* the stored summary of an id is the one of the latest run that supplied one.
StoredSummaryCarriedOver ==
    [][/\ UpdateWithoutSummary =>
            \A i \in {Least(IndicesOf(videos, last'.id))} :
                StoredSummary(videos'[i]) = StoredSummary(videos[i])
       /\ SummariesOf(videos') = expected']_vars

\* a run of record_video without a summary has updated an entry that no store starts
\* with, and the entry has the summary an earlier run supplied
SuppliedSummaryCarriedOver ==
    /\ last.op = "record_video"
    /\ last.exit = 0
    /\ last.source.kind = "none"
    /\ last.id = Id("2")
    /\ \E i \in 1..Len(videos) :
          /\ videos[i].v["id"] = JStr(Id("2"))
          /\ HasStoredContent(videos[i])

\* no two entries of the store have the same id
OneEntryPerId(vs) ==
    \A i, j \in 1..Len(vs) : vs[i].v["id"] = vs[j].v["id"] => i = j

\* the step replaces the entry with the id where it is, and changes no other entry
ReplacedInPlace(id) ==
    /\ Len(videos') = Len(videos)
    /\ \E i \in 1..Len(videos) :
          /\ videos[i].v["id"] = JStr(id)
          /\ videos'[i].v["id"] = JStr(id)
          /\ \A j \in (1..Len(videos)) \ {i} : videos'[j] = videos[j]

\* the step appends one entry with the id, which no entry had, and changes no entry
AppendedOne(id) ==
    /\ IndicesOf(videos, id) = {}
    /\ Len(videos') = Len(videos) + 1
    /\ SubSeq(videos', 1, Len(videos)) = videos
    /\ videos'[Len(videos')].v["id"] = JStr(id)

\* the step appends entries whose ids no entry had, and changes no entry
AppendedNewIds ==
    /\ Len(videos') >= Len(videos)
    /\ SubSeq(videos', 1, Len(videos)) = videos
    /\ \A k \in (Len(videos) + 1)..Len(videos') :
          IndicesOf(videos, videos'[k].v["id"].v) = {}

\* C11: the stores start with pairwise distinct ids, and after any runs the store has
\* at most one entry per id: a run of record_video that writes the store replaces the
\* entry with its id in place, leaving every other entry as it was, or appends one
\* entry with a new id, and a run of import_history appends only ids not yet present.
StoreKeepsOneEntryPerId ==
    /\ [](OneEntryPerId(videos))
    /\ [][/\ (last'.op = "record_video" /\ last'.exit = 0) =>
               (ReplacedInPlace(last'.id) \/ AppendedOne(last'.id))
          /\ last'.op = "import_history" => AppendedNewIds]_vars

\* a run of record_video has replaced the first entry of a store of two, in front of
\* the entry a run of import_history appended
ReplacedBeforeImportedEntry ==
    /\ last.op = "record_video"
    /\ last.exit = 0
    /\ last.message = "Updated existing record"
    /\ last.id = Id("1")
    /\ Len(videos) = 2
    /\ videos[1].v["id"] = JStr(Id("1"))
    /\ videos[1].v["title"] = JStr(RichArgs(Id("1")).title)
    /\ videos[2] = HistoryEntry(Transcript(Id("2"), TRUE, Metadata))

====
